---- MODULE Spec2Model ----
(***************************************************************************)
(* Model of pysage50/sage.py: the transaction-number freshness check, the  *)
(* per-table JSON snapshot cache, the Sage repository's reference lookup   *)
(* and the remittance enrichment with its document-level checks.           *)
(*                                                                         *)
(* Three specifications share the variables:                               *)
(*   Spec          the cache: check_cache_upto_date, get_dataframe_...,    *)
(*                 Sage.__init__ / update_cache / load_data                *)
(*   SpecSnapshot  the JSON round trip of an identifier column             *)
(*   SpecLedger    using_reference_get, get_field, enrich_remittance_doc   *)
(***************************************************************************)
EXTENDS Integers, Sequences, FiniteSets, TLC

VARIABLES
    sageMax,     \* max(TRAN_NUMBER) of AUDIT_JOURNAL in the Ledger Source
    markFile,    \* SageODBC_check.json
    snap,        \* <name>.json for the three cached tables
    mem,         \* self.sqldata, self.invoices, self.invoice_lines
    instance,    \* Singleton.instance is set
    last,        \* the most recent call and what it returned or raised
    col,         \* an identifier column of the live table (SpecSnapshot)
    jsonCol,     \* that column as written in the snapshot file
    loadedCol,   \* that column as returned by the fresh path
    sqldata,     \* the entries table queried by using_reference_get
    doc,         \* a remittance document: rows, derived columns, checked
    res          \* result of the most recent lookup / enrichment

vars == <<sageMax, markFile, snap, mem, instance, last,
          col, jsonCol, loadedCol, sqldata, doc, res>>

cacheVars == <<sageMax, markFile, snap, mem, instance, last>>
snapshotVars == <<col, jsonCol, loadedCol>>
ledgerVars == <<sqldata, doc, res>>

(***************************************************************************)
(* Bounds                                                                  *)
(***************************************************************************)
MaxTran == 2
MaxStrLen == 2      \* longest identifier string drawn
MaxRows == 2        \* most rows of the identifier column drawn
MaxEntries == 3     \* most rows of the entries table drawn
MaxDocRows == 2     \* most rows of a remittance document drawn

(***************************************************************************)
(* The cache                                                               *)
(***************************************************************************)
Tables == {"SageODBC", "SageInvoices", "SageInvoiceLines"}

\* What the Ledger Source does to one call: answers, refuses the connection
\* (pyodbc.connect raises) or fails the query (pd.read_sql raises).
SrcModes == {"up", "noconnect", "noquery"}

\* "no content": below every transaction number
NoVer == 0 - 1
NoFile == [state |-> "missing", ver |-> NoVer]
BadFile == [state |-> "corrupt", ver |-> NoVer]
OkFile(v) == [state |-> "ok", ver |-> v]

NoTable == [origin |-> "none", ver |-> NoVer]

\* The SELECT lists: only the entries query returns ACCOUNT_REF and INV_REF.
HasIdColumns(name) == name = "SageODBC"

\* try: json.load(f)['max_transaction_stored'] except (FileNotFoundError, ValueError): 0
ReadMark(f) == IF f.state = "ok" THEN f.ver ELSE 0

UpdateCacheNeeded(stored, inSage) == (stored = 0) \/ (stored # inSage)

\* Mutant: the value read from the file is written back instead of the new one.
MarkWritten_Stored(stored, inSage) == stored

\* data = {'max_transaction_stored': max_transaction_in_sage}
MarkWritten(stored, inSage) == inSage

\* Mutant: the snapshot is read whatever the flag says.
SnapshotRead_IgnoresFlag(cache_upto_date, f) == f.state = "ok"

\* if cache_upto_date: try pd.read_json(...) - TRUE when the file was read
SnapshotRead(cache_upto_date, f) == cache_upto_date /\ f.state = "ok"

\* check_cache_upto_date as a function of the mark file and the source.
\* Returns the outcome, the returned update_cache flag and the mark file after.
CheckCacheUptoDateFn(f, src, max) ==
    IF src = "noconnect"
    THEN [outcome |-> "ConnectError", ret |-> FALSE, mark |-> f]
    ELSE IF src = "noquery"
    THEN [outcome |-> "QueryError", ret |-> FALSE, mark |-> f]
    ELSE [outcome |-> "ok",
          ret |-> UpdateCacheNeeded(ReadMark(f), max),
          mark |-> OkFile(MarkWritten(ReadMark(f), max))]

\* get_dataframe_sage_odbc_query(sql, name, cache_upto_date) as a function of
\* the snapshot file, the source and its current maximum transaction number.
GetDataframeFn(name, cache_upto_date, f, src, max) ==
    IF src = "noconnect"
    THEN [outcome |-> "ConnectError", origin |-> "none", ver |-> NoVer,
          queried |-> FALSE, file |-> f]
    ELSE IF SnapshotRead(cache_upto_date, f)
    THEN IF HasIdColumns(name)
         THEN [outcome |-> "ok", origin |-> "snapshot", ver |-> f.ver,
               queried |-> FALSE, file |-> f]
         ELSE [outcome |-> "KeyError", origin |-> "none", ver |-> NoVer,
               queried |-> FALSE, file |-> f]
    ELSE IF src = "noquery"
    THEN [outcome |-> "QueryError", origin |-> "none", ver |-> NoVer,
          queried |-> TRUE, file |-> f]
    ELSE [outcome |-> "ok", origin |-> "live", ver |-> max,
          queried |-> TRUE, file |-> OkFile(max)]

Returned(r) == [origin |-> r.origin, ver |-> r.ver]

\* load_data: the flag, then the three tables in order; an exception leaves
\* the attributes assigned so far and the snapshots written so far.
LoadDataFn(update_cache, src) ==
    LET chk == IF update_cache
               THEN [outcome |-> "ok", ret |-> FALSE, mark |-> markFile]
               ELSE CheckCacheUptoDateFn(markFile, src[0], sageMax)
        cache_is_upto_date == chk.ret
        r1 == GetDataframeFn("SageODBC", cache_is_upto_date,
                             snap["SageODBC"], src[1], sageMax)
        r2 == GetDataframeFn("SageInvoices", cache_is_upto_date,
                             snap["SageInvoices"], src[2], sageMax)
        r3 == GetDataframeFn("SageInvoiceLines", cache_is_upto_date,
                             snap["SageInvoiceLines"], src[3], sageMax)
        n == IF chk.outcome # "ok" THEN 0
             ELSE IF r1.outcome # "ok" THEN 1
             ELSE IF r2.outcome # "ok" THEN 2
             ELSE IF r3.outcome # "ok" THEN 3 ELSE 4
    IN  [outcome |-> IF n = 0 THEN chk.outcome
                     ELSE IF n = 1 THEN r1.outcome
                     ELSE IF n = 2 THEN r2.outcome
                     ELSE r3.outcome,
         flag |-> cache_is_upto_date,
         checked |-> (~update_cache /\ chk.outcome = "ok"),
         mark |-> chk.mark,
         snap |-> [t \in Tables |->
                     IF t = "SageODBC" /\ n >= 1 THEN r1.file
                     ELSE IF t = "SageInvoices" /\ n >= 2 THEN r2.file
                     ELSE IF t = "SageInvoiceLines" /\ n >= 3 THEN r3.file
                     ELSE snap[t]],
         mem |-> [t \in Tables |->
                     IF t = "SageODBC" /\ n >= 2 THEN Returned(r1)
                     ELSE IF t = "SageInvoices" /\ n >= 3 THEN Returned(r2)
                     ELSE IF t = "SageInvoiceLines" /\ n >= 4 THEN Returned(r3)
                     ELSE mem[t]]]

\* The behaviours of the source over one load_data call: the call stops at the
\* first failure, so one failing access (or none) covers them all.  Access 0
\* belongs to check_cache_upto_date, accesses 1..3 to the three tables.
SrcRuns ==
    {[i \in 0..3 |-> "up"]} \cup
    {[i \in 0..3 |-> IF i = k THEN m ELSE "up"] :
        k \in 0..3, m \in {"noconnect", "noquery"}}

\* The record kept of the most recent call:
\*   op, arg, flag   the function, its argument (table name or update_cache)
\*                   and the cache_upto_date flag it worked with
\*   outcome         "ok" or the exception that left the call
\*   checked, ret    check_cache_upto_date ran to completion in this call, and
\*                   the update_cache value it returned
\*   again           that check directly followed a completed check, with no
\*                   change of the source or of the mark file in between
\*   max, loadable   the source's maximum at call time, and which snapshot
\*                   files pd.read_json could load at call time
\*   origin, ver, queried   (get_dataframe_sage_odbc_query) where the returned
\*                   table came from, its content, and whether read_sql ran
NoCall == [op |-> "none", arg |-> "-", flag |-> FALSE, outcome |-> "-",
           checked |-> FALSE, ret |-> FALSE, again |-> FALSE, max |-> NoVer,
           loadable |-> [t \in Tables |-> FALSE], origin |-> "none",
           ver |-> NoVer, queried |-> FALSE]

InitCache ==
    /\ sageMax \in 0..MaxTran
    /\ markFile \in {NoFile, BadFile} \cup {OkFile(v) : v \in 0..sageMax}
    /\ snap \in {[t \in Tables |-> f] : f \in {NoFile} \cup {OkFile(v) : v \in 0..sageMax}}
    /\ mem = [t \in Tables |-> NoTable]
    /\ instance = FALSE
    /\ last = NoCall

\* New transactions are posted in Sage.
NewTransactions ==
    /\ sageMax < MaxTran
    /\ \E m \in (sageMax + 1)..MaxTran : sageMax' = m
    /\ last' = [NoCall EXCEPT !.op = "posted"]
    /\ UNCHANGED <<markFile, snap, mem, instance>>

\* A snapshot file is removed or left truncated outside the program: the
\* states pd.read_json answers with FileNotFoundError and ValueError.
SnapshotLost ==
    /\ \E t \in Tables, f \in {NoFile, BadFile} :
        /\ snap[t] # f
        /\ snap' = [snap EXCEPT ![t] = f]
    /\ last' = [NoCall EXCEPT !.op = "lost"]
    /\ UNCHANGED <<sageMax, markFile, mem, instance>>

CheckCacheUptoDate ==
    \E src \in SrcModes :
        LET r == CheckCacheUptoDateFn(markFile, src, sageMax) IN
        /\ markFile' = r.mark
        /\ last' = [NoCall EXCEPT !.op = "check_cache_upto_date",
                                  !.outcome = r.outcome,
                                  !.checked = (r.outcome = "ok"),
                                  !.ret = r.ret,
                                  !.again = (r.outcome = "ok" /\ last.checked),
                                  !.max = sageMax]
        /\ UNCHANGED <<sageMax, snap, mem, instance>>

GetDataframeSageOdbcQuery ==
    \E name \in Tables, cache_upto_date \in BOOLEAN, src \in SrcModes :
        LET r == GetDataframeFn(name, cache_upto_date, snap[name], src, sageMax) IN
        /\ snap' = [snap EXCEPT ![name] = r.file]
        /\ last' = [NoCall EXCEPT !.op = "get_dataframe_sage_odbc_query",
                                  !.arg = name,
                                  !.flag = cache_upto_date,
                                  !.outcome = r.outcome,
                                  !.origin = r.origin,
                                  !.ver = r.ver,
                                  !.queried = r.queried,
                                  !.loadable = [t \in Tables |-> snap[t].state = "ok"],
                                  !.max = sageMax]
        /\ UNCHANGED <<sageMax, markFile, mem, instance>>

LoadDataCall(update_cache, src, op) ==
    LET r == LoadDataFn(update_cache, src) IN
    /\ markFile' = r.mark
    /\ snap' = r.snap
    /\ mem' = r.mem
    /\ last' = [NoCall EXCEPT !.op = op,
                              !.arg = IF update_cache THEN "True" ELSE "False",
                              !.flag = r.flag,
                              !.outcome = r.outcome,
                              !.checked = r.checked,
                              !.ret = r.flag,
                              !.again = (r.checked /\ last.checked),
                              !.loadable = [t \in Tables |-> snap[t].state = "ok"],
                              !.max = sageMax]
    /\ UNCHANGED sageMax

\* Sage(): the singleton is created by a constructor that runs update_cache.
Construct ==
    /\ ~instance
    /\ \E src \in SrcRuns :
        /\ LoadDataCall(TRUE, src, "__init__")
        /\ instance' = (LoadDataFn(TRUE, src).outcome = "ok")

UpdateCache ==
    /\ instance
    /\ \E src \in SrcRuns : LoadDataCall(TRUE, src, "load_data")
    /\ UNCHANGED instance

LoadData ==
    /\ instance
    /\ \E src \in SrcRuns : LoadDataCall(FALSE, src, "load_data")
    /\ UNCHANGED instance

Init ==
    /\ InitCache
    /\ col = << >> /\ jsonCol = << >> /\ loadedCol = << >>
    /\ sqldata = << >> /\ doc = << >> /\ res = << >>

\* The Sage object: construction, update_cache and load_data.
Next ==
    \/ NewTransactions /\ UNCHANGED <<snapshotVars, ledgerVars>>
    \/ SnapshotLost /\ UNCHANGED <<snapshotVars, ledgerVars>>
    \/ Construct /\ UNCHANGED <<snapshotVars, ledgerVars>>
    \/ UpdateCache /\ UNCHANGED <<snapshotVars, ledgerVars>>
    \/ LoadData /\ UNCHANGED <<snapshotVars, ledgerVars>>

Spec == Init /\ [][Next]_vars

\* The two module-level cache functions called on their own.
NextCacheFns ==
    \/ NewTransactions /\ UNCHANGED <<snapshotVars, ledgerVars>>
    \/ SnapshotLost /\ UNCHANGED <<snapshotVars, ledgerVars>>
    \/ CheckCacheUptoDate /\ UNCHANGED <<snapshotVars, ledgerVars>>
    \/ GetDataframeSageOdbcQuery /\ UNCHANGED <<snapshotVars, ledgerVars>>

SpecCacheFns == Init /\ [][NextCacheFns]_vars

(***************************************************************************)
(* The JSON round trip of an identifier column (INV_REF, ACCOUNT_REF)      *)
(*                                                                         *)
(* A string is a sequence of one-character strings.  "A" stands for any    *)
(* character that keeps a string from being read as a number.              *)
(***************************************************************************)
DigitChars == <<"0", "1", "2", "3", "4", "5", "6", "7", "8", "9">>
Alphabet == {"0", "1", "A"}

Strings == UNION {[1..n -> Alphabet] : n \in 0..MaxStrLen}

IsDigit(c) == \E d \in 1..Len(DigitChars) : DigitChars[d] = c
DigitVal(c) == (CHOOSE d \in 1..Len(DigitChars) : DigitChars[d] = c) - 1

\* float(s) succeeds: a non-empty string of decimal digits
IsNumeric(s) == Len(s) > 0 /\ \A i \in 1..Len(s) : IsDigit(s[i])

RECURSIVE StrToInt(_)
StrToInt(s) ==
    IF Len(s) = 0 THEN 0
    ELSE 10 * StrToInt(SubSeq(s, 1, Len(s) - 1)) + DigitVal(s[Len(s)])

\* str(n) for n >= 0
RECURSIVE IntToStr(_)
IntToStr(n) ==
    IF n < 10 THEN <<DigitChars[n + 1]>>
    ELSE Append(IntToStr(n \div 10), DigitChars[(n % 10) + 1])

StrVal(s) == [t |-> "str", s |-> s, n |-> 0]
IntVal(n) == [t |-> "int", s |-> << >>, n |-> n]

\* df.to_json: a column of Python strings is written as JSON strings
ToJson(c) == [i \in 1..Len(c) |-> StrVal(c[i].s)]

\* pd.read_json with its default dtype inference: an object column all of
\* whose values convert to float becomes float64 and then, the values being
\* whole, int64; a column with one value that does not convert stays as read.
ReadJson(j) ==
    IF \A i \in 1..Len(j) : j[i].t = "str" /\ IsNumeric(j[i].s)
    THEN [i \in 1..Len(j) |-> IntVal(StrToInt(j[i].s))]
    ELSE j

\* df[fn].astype('str')
AstypeStr(c) ==
    [i \in 1..Len(c) |->
        IF c[i].t = "int" THEN StrVal(IntToStr(c[i].n)) ELSE c[i]]

InitSnapshot ==
    /\ col \in UNION {[1..n -> {StrVal(s) : s \in Strings}] : n \in 1..MaxRows}
    /\ jsonCol = << >>
    /\ loadedCol = << >>
    /\ sageMax = 0 /\ markFile = NoFile /\ snap = [t \in Tables |-> NoFile]
    /\ mem = [t \in Tables |-> NoTable] /\ instance = FALSE /\ last = NoCall
    /\ sqldata = << >> /\ doc = << >> /\ res = << >>

\* The stale path: df = pd.read_sql(...); df.to_json(json_file_name)
PersistSnapshot ==
    /\ jsonCol = << >>
    /\ jsonCol' = ToJson(col)
    /\ UNCHANGED <<col, loadedCol>>

\* The fresh path: df = pd.read_json(...); df[fn] = df[fn].astype('str')
LoadSnapshot ==
    /\ jsonCol # << >>
    /\ loadedCol = << >>
    /\ loadedCol' = AstypeStr(ReadJson(jsonCol))
    /\ UNCHANGED <<col, jsonCol>>

NextSnapshot ==
    \/ PersistSnapshot /\ UNCHANGED <<cacheVars, ledgerVars>>
    \/ LoadSnapshot /\ UNCHANGED <<cacheVars, ledgerVars>>

SpecSnapshot == InitSnapshot /\ [][NextSnapshot]_vars

(***************************************************************************)
(* The Sage repository: using_reference_get, get_field and                 *)
(* enrich_remittance_doc                                                   *)
(*                                                                         *)
(* Amounts are whole numbers of thirds of a penny, so that sums need not   *)
(* be whole pence and rounding to the penny never meets a tie.  A tax rate *)
(* is the exact fraction num / den (den > 0).                              *)
(***************************************************************************)
Amounts == {1, 0 - 2}
RecordTypes == {"SI", "SC"}
Accounts == {"1100", "2200", "4000"}
Refs == {7, 8}                 \* references looked up; the table holds 7 only
LedgerRefs == {7}
Fields == {"ALT_REF", "AMOUNT", "GROSS_AMOUNT", "NET_AMOUNT", "TAX_AMOUNT",
           "TAX_RATE", "BOGUS"}
MemberCodes == {"0001", "4552", "4424"}
DocTypes == {"Invoice", "Credit Note"}

\* str(i)
Str(i) == IntToStr(i)

Entries ==
    [TYPE : RecordTypes, ACCOUNT_REF : Accounts, ALT_REF : {"CUST01"},
     INV_REF : {Str(r) : r \in LedgerRefs}, AMOUNT : Amounts]

\* Tables are drawn with their rows in one fixed order of (TYPE, ACCOUNT_REF,
\* AMOUNT): every result modelled here is a sum over the matching rows or the
\* ALT_REF of the first one, which all rows share.
EntryRank(e) ==
    LET t == IF e.TYPE = "SI" THEN 0 ELSE 1
        a == IF e.ACCOUNT_REF = "1100" THEN 0
             ELSE IF e.ACCOUNT_REF = "2200" THEN 1 ELSE 2
    IN  (t * 3 + a) * 10 + e.AMOUNT

Ledgers ==
    {q \in UNION {[1..n -> Entries] : n \in 0..MaxEntries} :
        \A k \in 1..(Len(q) - 1) : EntryRank(q[k]) <= EntryRank(q[k + 1])}

\* luca.p: round to the penny
P(x) == 3 * ((x + 1) \div 3)

RECURSIVE SumAmount(_)
SumAmount(df) ==
    IF Len(df) = 0 THEN 0 ELSE df[1].AMOUNT + SumAmount(Tail(df))

\* Mutant: the nominal account is not part of the filter.
Matching_AnyAccount(data, i, record_type, account) ==
    SelectSeq(data, LAMBDA e : /\ e.TYPE \in record_type
                               /\ e.INV_REF = Str(i))

\* self.sqldata[TYPE.isin(record_type) & (ACCOUNT_REF == account) & (INV_REF == str(i))]
Matching(data, i, record_type, account) ==
    SelectSeq(data, LAMBDA e : /\ e.TYPE \in record_type
                               /\ e.ACCOUNT_REF = account
                               /\ e.INV_REF = Str(i))

\* Mutant: the rate is taken against the VAT control account.
TaxRateAccount_Vat == "2200"

\* the account of the second filter of the TAX_RATE branch
TaxRateAccount == "4000"

NoValue == [outcome |-> "ok", error |-> "-", t |-> "None", str |-> "-",
            num |-> 0, den |-> 1]
Raise(class, kind) == [NoValue EXCEPT !.outcome = class, !.error = kind]
StrResult(x) == [NoValue EXCEPT !.t = "str", !.str = x]
Money(x) == [NoValue EXCEPT !.t = "money", !.num = x]
Rate(n, d) == [NoValue EXCEPT !.t = "rate",
                              !.num = IF d < 0 THEN 0 - n ELSE n,
                              !.den = IF d < 0 THEN 0 - d ELSE d]

\* using_reference_get(i, field, record_type=...)
UsingReferenceGet(data, i, field, record_type) ==
    LET df == Matching(data, i, record_type, "1100")
        vat == Matching(data, i, record_type, "2200")
        df2 == Matching(data, i, record_type, TaxRateAccount)
    IN  IF Len(df) = 0 THEN Raise("PySageError", "NotFound")
        ELSE IF field \in {"ALT_REF"} THEN StrResult(df[1][field])
        ELSE IF field \in {"AMOUNT"} THEN Money(P(SumAmount(df)))
        ELSE IF field = "GROSS_AMOUNT" THEN Money(P(SumAmount(df)))
        ELSE IF field = "NET_AMOUNT"
            THEN Money(P(SumAmount(df) + SumAmount(vat)))
        ELSE IF field = "TAX_AMOUNT" THEN Money(P(0 - SumAmount(vat)))
        ELSE IF field = "TAX_RATE"
            THEN IF SumAmount(df2) = 0
                 THEN Raise("ZeroDivisionError", "-")
                 ELSE Rate(100 * (SumAmount(df) + SumAmount(df2)),
                           0 - SumAmount(df2))
        ELSE Raise("PySageError", "UnsupportedField")

\* Mutant: only the AIS invoices code is left out of the enrichment.
Excluded_InvoicesOnly(code) == code \in {"4424"}

\* row['Member Code'] in ('4552', '4424')
Excluded(code) == code \in {"4552", "4424"}

Lookup(data, row, field, rt) ==
    [rt |-> rt, r |-> UsingReferenceGet(data, row.ref, field, {rt})]

\* get_field(row, field): the value returned or the exception raised, and the
\* lookups made, in order.
GetField(data, row, field) ==
    IF Excluded(row.code) THEN [r |-> NoValue, lookups |-> << >>]
    ELSE IF row.type = "Invoice"
    THEN LET a == Lookup(data, row, field, "SI")
         IN  [r |-> a.r, lookups |-> <<a>>]
    ELSE IF row.type = "Credit Note"
    THEN LET a == Lookup(data, row, field, "SC")
             b == Lookup(data, row, field, "SI")
         IN  IF a.r.outcome = "PySageError"
             THEN [r |-> b.r, lookups |-> <<a, b>>]
             ELSE [r |-> a.r, lookups |-> <<a>>]
    ELSE [r |-> NoValue, lookups |-> << >>]

Rows == [ref : LedgerRefs, code : MemberCodes, type : DocTypes]

\* Documents are drawn with their rows in one fixed order: the enrichment
\* works row by row and the checks are sums over the rows.
RowRank(w) ==
    LET c == IF w.code = "0001" THEN 0 ELSE IF w.code = "4552" THEN 1 ELSE 2
        t == IF w.type = "Invoice" THEN 0 ELSE 1
    IN  c * 2 + t

Docs == {[rows |-> q, cols |-> << >>, checked |-> c] :
            q \in {w \in UNION {[1..n -> Rows] : n \in 1..MaxDocRows} :
                        \A k \in 1..(Len(w) - 1) :
                            RowRank(w[k]) <= RowRank(w[k + 1])},
            c \in BOOLEAN}

\* The derived columns in the order they are assigned, and the field of each.
DerivedColumns == <<"Account_Ref", "Sage_Net_Amount", "Sage_Gross_Amount",
                    "Sage_VAT_Amount", "Sage_Tax_Rate">>
ColumnField == <<"ALT_REF", "NET_AMOUNT", "GROSS_AMOUNT", "TAX_AMOUNT",
                 "TAX_RATE">>

\* get_series(field): remittance_doc.df.apply(lambda row: get_field(row, field))
GetSeries(data, rows, field) ==
    [k \in 1..Len(rows) |-> GetField(data, rows[k], field).r]

SeriesRaises(ser) == \E k \in 1..Len(ser) : ser[k].outcome # "ok"
SeriesError(ser) ==
    ser[CHOOSE k \in 1..Len(ser) :
            /\ ser[k].outcome # "ok"
            /\ \A h \in 1..(k - 1) : ser[h].outcome = "ok"]

\* get_series('TAX_RATE') / 100; a null stays null
Per100(ser) ==
    [k \in 1..Len(ser) |->
        IF ser[k].t = "rate" THEN Rate(ser[k].num, ser[k].den * 100)
        ELSE ser[k]]

\* Series.sum() of a column of money values and nulls: the nulls are skipped
RECURSIVE SumColumn(_)
SumColumn(c) ==
    IF Len(c) = 0 THEN 0
    ELSE (IF c[1].t = "money" THEN c[1].num ELSE 0) + SumColumn(Tail(c))

\* df[df['Member Code'] != '4552']['Sage_Gross_Amount']
ExDiscount(rows, c) ==
    [k \in 1..Len(c) |-> IF rows[k].code # "4552" THEN c[k] ELSE NoValue]

\* Mutant: the flag is left as it was when a check fails.
CheckedOnFailure_Kept(checked) == checked

\* remittance_doc.checked = False
CheckedOnFailure(checked) == FALSE

\* enrich_remittance_doc(remittance_doc): the document after the call and the
\* exception raised, if any.
EnrichRemittanceDoc(data, d) ==
    LET ser(j) == GetSeries(data, d.rows, ColumnField[j])
        bad == {j \in 1..Len(ColumnField) : SeriesRaises(ser(j))}
        n == IF bad = {} THEN Len(ColumnField)
             ELSE (CHOOSE j \in bad : \A h \in bad : j <= h) - 1
        cols == [j \in 1..Len(ColumnField) |->
                    IF j <= n
                    THEN IF ColumnField[j] = "TAX_RATE"
                         THEN Per100(ser(j)) ELSE ser(j)
                    ELSE IF j <= Len(d.cols) THEN d.cols[j] ELSE << >>]
        net == SumColumn(cols[2])
        gross == SumColumn(cols[3])
        vat == SumColumn(cols[4])
        gross_sum_ex_discount == SumColumn(ExDiscount(d.rows, cols[3]))
    IN  IF bad # {}
        THEN [doc |-> [d EXCEPT !.cols = cols],
              r |-> SeriesError(ser(n + 1))]
        ELSE IF P(net + vat) # P(gross)
        THEN [doc |-> [d EXCEPT !.cols = cols,
                                !.checked = CheckedOnFailure(d.checked)],
              r |-> Raise("PySageError", "SumCheck")]
        ELSE IF gross # gross_sum_ex_discount
        THEN [doc |-> [d EXCEPT !.cols = cols,
                                !.checked = CheckedOnFailure(d.checked)],
              r |-> Raise("PySageError", "DiscountCheck")]
        ELSE [doc |-> [d EXCEPT !.cols = cols], r |-> NoValue]

NoRes == [op |-> "none", i |-> 0, field |-> "-", record_type |-> {},
          row |-> << >>, r |-> NoValue, lookups |-> << >>,
          checked |-> FALSE]

InitLedger ==
    /\ sqldata \in Ledgers
    /\ doc = << >>
    /\ res = NoRes
    /\ sageMax = 0 /\ markFile = NoFile /\ snap = [t \in Tables |-> NoFile]
    /\ mem = [t \in Tables |-> NoTable] /\ instance = FALSE /\ last = NoCall
    /\ col = << >> /\ jsonCol = << >> /\ loadedCol = << >>

\* The lookups read the table and change nothing: the state after a call is
\* the table and the record of that call, so each call is taken from the
\* table as loaded.
UsingReferenceGetCall ==
    /\ res.op = "none"
    /\ \E i \in Refs, field \in Fields,
       record_type \in {{"SI"}, {"SC"}, {"SI", "SC"}} :
        /\ res' = [NoRes EXCEPT !.op = "using_reference_get",
                                !.i = i, !.field = field,
                                !.record_type = record_type,
                                !.r = UsingReferenceGet(sqldata, i, field,
                                                        record_type)]
        /\ UNCHANGED <<sqldata, doc>>

GetFieldCall ==
    /\ res.op = "none"
    /\ \E row \in [ref : Refs, code : MemberCodes, type : DocTypes],
       field \in Fields :
        LET g == GetField(sqldata, row, field) IN
        /\ res' = [NoRes EXCEPT !.op = "get_field",
                                !.row = row, !.field = field,
                                !.r = g.r, !.lookups = g.lookups]
        /\ UNCHANGED <<sqldata, doc>>

NextLedger ==
    \/ UsingReferenceGetCall /\ UNCHANGED <<cacheVars, snapshotVars>>
    \/ GetFieldCall /\ UNCHANGED <<cacheVars, snapshotVars>>

SpecLedger == InitLedger /\ [][NextLedger]_vars

InitReconcile ==
    /\ sqldata \in Ledgers
    /\ doc \in Docs
    /\ res = NoRes
    /\ sageMax = 0 /\ markFile = NoFile /\ snap = [t \in Tables |-> NoFile]
    /\ mem = [t \in Tables |-> NoTable] /\ instance = FALSE /\ last = NoCall
    /\ col = << >> /\ jsonCol = << >> /\ loadedCol = << >>

EnrichRemittanceDocCall ==
    LET e == EnrichRemittanceDoc(sqldata, doc) IN
    /\ doc' = e.doc
    /\ res' = [NoRes EXCEPT !.op = "enrich_remittance_doc",
                            !.r = e.r, !.checked = doc.checked]
    /\ UNCHANGED sqldata

NextReconcile ==
    \/ EnrichRemittanceDocCall /\ UNCHANGED <<cacheVars, snapshotVars>>

SpecReconcile == InitReconcile /\ [][NextReconcile]_vars

(***************************************************************************)
(* Claims about the cache                                                  *)
(***************************************************************************)
LoadCompleted == last.op \in {"load_data", "__init__"} /\ last.outcome = "ok"

\* C1 as stated: after a load_data call that completes, the three tables have
\* one origin - all fetched from the Ledger Source or all loaded from snapshot.
C1_SameOrigin ==
    LoadCompleted =>
        \/ \A t \in Tables : mem[t].origin = "live"
        \/ \A t \in Tables : mem[t].origin = "snapshot"

\* C1 amended: after a load_data call that completes, each table on its own
\* was loaded from its snapshot when the flag handed to
\* get_dataframe_sage_odbc_query was true and its file could be read, and was
\* fetched from the Ledger Source otherwise.
C1_OriginPerTable ==
    LoadCompleted =>
        \A t \in Tables :
            mem[t].origin = IF last.flag /\ last.loadable[t]
                            THEN "snapshot" ELSE "live"

C1_MixedOrigin ==
    /\ LoadCompleted
    /\ last.arg = "False"
    /\ mem["SageODBC"].origin = "snapshot"
    /\ mem["SageInvoices"].origin = "live"
    /\ mem["SageInvoiceLines"].origin = "live"

\* C10 as stated: a load_data(update_cache=False) call that completes serves
\* from snapshot only tables fetched when the source's maximum transaction
\* number was the current one.
C10_SnapshotServedIsCurrent ==
    (last.op = "load_data" /\ last.arg = "False" /\ last.outcome = "ok") =>
        \A t \in Tables :
            mem[t].origin = "snapshot" => mem[t].ver = last.max

\* C2 as stated: a check_cache_upto_date call that directly follows a completed
\* one, the source unchanged, returns stale = false.
C2_SecondCheckFresh ==
    (last.checked /\ last.again) => last.ret = FALSE

\* C2 amended: ... returns stale = false when the source's maximum transaction
\* number is not 0.
C2_SecondCheckFreshNonZero ==
    (last.checked /\ last.again /\ last.max # 0) => last.ret = FALSE

C2_SecondCheckDone ==
    /\ last.op = "check_cache_upto_date"
    /\ last.checked /\ last.again
    /\ last.max # 0
    /\ last.ret = FALSE

\* C3 as stated: with cache_upto_date = true, get_dataframe_sage_odbc_query
\* returns the snapshot, untouched and without a query, when the file loads,
\* and otherwise queries the source, writes the snapshot and returns the
\* fetched table (calls the source itself failed are left aside).
C3_FreshPath ==
    (/\ last.op = "get_dataframe_sage_odbc_query"
     /\ last.flag
     /\ last.outcome \notin {"ConnectError", "QueryError"}) =>
        IF last.loadable[last.arg]
        THEN /\ last.outcome = "ok"
             /\ last.origin = "snapshot"
             /\ ~last.queried
             /\ snap[last.arg] = OkFile(last.ver)
        ELSE /\ last.outcome = "ok"
             /\ last.origin = "live"
             /\ last.queried
             /\ last.ver = last.max
             /\ snap[last.arg] = OkFile(last.max)

(***************************************************************************)
(* Claims about the repository lookups                                     *)
(***************************************************************************)
\* The rows of the table with the given types, account and reference.
RowsOf(types, account, ref) ==
    {k \in 1..Len(sqldata) :
        /\ sqldata[k].TYPE \in types
        /\ sqldata[k].ACCOUNT_REF = account
        /\ sqldata[k].INV_REF = IntToStr(ref)}

RECURSIVE TotalOf(_)
TotalOf(ks) ==
    IF ks = {} THEN 0
    ELSE LET k == CHOOSE x \in ks : TRUE
         IN  sqldata[k].AMOUNT + TotalOf(ks \ {k})

\* C5: using_reference_get fails with NotFound whenever no entry has a type
\* in record_type, nominal account '1100' and invoice reference str(i),
\* whatever the field asked for.
C5_NotFoundOnNoMatch ==
    (/\ res.op = "using_reference_get"
     /\ RowsOf(res.record_type, "1100", res.i) = {}) =>
        /\ res.r.outcome = "PySageError"
        /\ res.r.error = "NotFound"

C5_NoMatchUnsupportedField ==
    /\ res.op = "using_reference_get"
    /\ res.field = "BOGUS"
    /\ RowsOf(res.record_type, "1100", res.i) = {}
    /\ RowsOf(res.record_type, "2200", res.i) # {}
    /\ res.r.error = "NotFound"

\* C6 as stated: for a Credit Note row outside the exclusion set get_field
\* looks up "SC" first, retries as "SI" once, exactly when the "SC" lookup
\* failed with NotFound, and hands on the outcome of the last lookup made.
C6_RetryOnlyOnNotFound ==
    (/\ res.op = "get_field"
     /\ res.row.type = "Credit Note"
     /\ res.row.code \notin {"4552", "4424"}) =>
        /\ Len(res.lookups) \in {1, 2}
        /\ res.lookups[1].rt = "SC"
        /\ Len(res.lookups) = 2 <=>
                (/\ res.lookups[1].r.outcome = "PySageError"
                 /\ res.lookups[1].r.error = "NotFound")
        /\ Len(res.lookups) = 2 => res.lookups[2].rt = "SI"
        /\ res.r = res.lookups[Len(res.lookups)].r

\* C9 as stated: with a matching '1100' entry, the TAX_RATE returned is
\* 100 * (AMOUNT_sum / (-VAT_control_sum) - 1), the VAT control sum being that
\* of the '2200' entries of the same reference and types (taken where that
\* sum is not 0 and the call returns).
C9_TaxRateFromVatControl ==
    (/\ res.op = "using_reference_get"
     /\ res.field = "TAX_RATE"
     /\ RowsOf(res.record_type, "1100", res.i) # {}
     /\ TotalOf(RowsOf(res.record_type, "2200", res.i)) # 0
     /\ res.r.outcome = "ok") =>
        LET a == TotalOf(RowsOf(res.record_type, "1100", res.i))
            v == TotalOf(RowsOf(res.record_type, "2200", res.i))
        IN  res.r.num * (0 - v) = 100 * (a + v) * res.r.den

\* C9 amended: with a matching '1100' entry, TAX_RATE is
\* 100 * (AMOUNT_sum / (-sales_sum) - 1), the sales sum being that of the
\* '4000' entries of the same reference and types, and the call raises
\* ZeroDivisionError when that sum is 0; no other account is read.
C9_TaxRateFromSales ==
    (/\ res.op = "using_reference_get"
     /\ res.field = "TAX_RATE"
     /\ RowsOf(res.record_type, "1100", res.i) # {}) =>
        LET a == TotalOf(RowsOf(res.record_type, "1100", res.i))
            n == TotalOf(RowsOf(res.record_type, "4000", res.i))
        IN  IF n = 0
            THEN res.r.outcome = "ZeroDivisionError"
            ELSE /\ res.r.outcome = "ok"
                 /\ res.r.t = "rate"
                 /\ res.r.num * (0 - n) = 100 * (a + n) * res.r.den

C9_TaxRateWithVatEntries ==
    /\ res.op = "using_reference_get"
    /\ res.field = "TAX_RATE"
    /\ res.r.outcome = "ok"
    /\ RowsOf(res.record_type, "1100", res.i) # {}
    /\ TotalOf(RowsOf(res.record_type, "2200", res.i)) # 0
    /\ TotalOf(RowsOf(res.record_type, "2200", res.i))
           # TotalOf(RowsOf(res.record_type, "4000", res.i))

(***************************************************************************)
(* Claims about the remittance enrichment                                  *)
(***************************************************************************)
Enriched == res.op = "enrich_remittance_doc"

\* The call got as far as the two document-level checks.
ChecksReached ==
    /\ Enriched
    /\ \/ res.r.outcome = "ok"
       \/ res.r.error \in {"SumCheck", "DiscountCheck"}

ReconciliationError ==
    /\ res.r.outcome = "PySageError"
    /\ res.r.error \in {"SumCheck", "DiscountCheck"}

\* A row tagged with the discount code whose invoice has gross in the ledger.
DiscountRowWithGross ==
    \E k \in 1..Len(doc.rows) :
        /\ doc.rows[k].code = "4552"
        /\ doc.rows[k].type = "Invoice"
        /\ TotalOf(RowsOf({"SI"}, "1100", doc.rows[k].ref)) \notin {0 - 1, 0, 1}

\* C7 as stated: when the rows carrying the discount code do not contribute
\* zero gross, enrich_remittance_doc raises ReconciliationError and ends
\* with checked = false.
C7_DiscountRowsRaise ==
    (ChecksReached /\ DiscountRowWithGross) =>
        (ReconciliationError /\ doc.checked = FALSE)

\* C7 amended: the rows carrying the discount code are not enriched, their
\* gross stays null, and the discount-row check never fails: a call that
\* reaches the checks raises only when net + VAT differs from gross, and
\* otherwise returns with checked as it was.
C7_DiscountCheckNeverFails ==
    Enriched =>
        /\ res.r.error # "DiscountCheck"
        /\ \A k \in 1..Len(doc.rows) :
              (doc.rows[k].code = "4552" /\ Len(doc.cols[3]) >= k)
                  => doc.cols[3][k].t = "None"
        /\ (ChecksReached /\ res.r.error # "SumCheck")
              => (res.r.outcome = "ok" /\ doc.checked = res.checked)

C7_DiscountRowPasses ==
    /\ ChecksReached
    /\ DiscountRowWithGross
    /\ \E k \in 1..Len(doc.rows) : doc.cols[3][k].t = "money"
                                    /\ doc.cols[3][k].num # 0
    /\ res.r.outcome = "ok"
    /\ res.checked /\ doc.checked

\* C8: a ReconciliationError leaves checked = false and all five derived
\* columns written; a call that returns leaves checked as it was.
C8_FlagThenRaise ==
    Enriched =>
        /\ ReconciliationError =>
              /\ doc.checked = FALSE
              /\ \A j \in 1..Len(DerivedColumns) :
                    Len(doc.cols[j]) = Len(doc.rows)
        /\ res.r.outcome = "ok" => doc.checked = res.checked

C8_RaisedOnCheckedDoc ==
    /\ Enriched
    /\ ReconciliationError
    /\ res.checked
    /\ doc.checked = FALSE
    /\ \E k \in 1..Len(doc.rows) : doc.cols[3][k].t = "money"

(***************************************************************************)
(* Claims about the snapshot round trip                                    *)
(***************************************************************************)
\* C4 as stated: an identifier column persisted and loaded again, with the
\* type-restoration pass, holds the original strings.
C4_RoundTrip == loadedCol # << >> => loadedCol = col

====
